---- MODULE Spec2Model ----
(***************************************************************************)
(* Model of enliten/TEA.py: class LCOECalculator, its constructor and its  *)
(* two operations calculate_depreciation and calculate_lcoe_metrics.       *)
(*                                                                         *)
(* Python floats are modelled as exact rationals [n, d] in lowest terms    *)
(* with d > 0, so every comparison and every division by zero is decided   *)
(* exactly.  A Python exception ends a call in pc = "error" with the       *)
(* exception's name in err.  Keyword arguments are options: None is        *)
(* [some |-> FALSE], a supplied value x is [some |-> TRUE, val |-> x].     *)
(* Sequences are 1-based: Python's xs[i] is xs[i + 1] here.                *)
(***************************************************************************)
EXTENDS Integers, Sequences, FiniteSets, TLC

\* ------------------------------------------------------------------------
\* Bounds of the model.
\* ------------------------------------------------------------------------

\* Largest analysis_period / depreciation_period given to the constructor.
MaxPeriod == 3

\* ------------------------------------------------------------------------
\* Exact arithmetic standing for Python float arithmetic.
\* ------------------------------------------------------------------------

AbsInt(i) == IF i < 0 THEN -i ELSE i

RECURSIVE GCD(_, _)
GCD(a, b) == IF b = 0 THEN a ELSE GCD(b, a % b)

\* The rational n/d (d # 0) in lowest terms with a positive denominator.
R(n, d) ==
    LET g == GCD(AbsInt(n), AbsInt(d))
        s == IF d < 0 THEN -1 ELSE 1
    IN  [n |-> (s * n) \div g, d |-> (s * d) \div g]

FromInt(i) == [n |-> i, d |-> 1]

RAdd(a, b) ==
    LET g == GCD(a.d, b.d)
    IN  R(a.n * (b.d \div g) + b.n * (a.d \div g), (a.d \div g) * b.d)

RNeg(a) == [n |-> -a.n, d |-> a.d]

RSub(a, b) == RAdd(a, RNeg(b))

\* Cross-cancelling keeps the intermediate products small.
RMul(a, b) ==
    LET g1 == GCD(AbsInt(a.n), b.d)
        g2 == GCD(AbsInt(b.n), a.d)
    IN  IF a.n = 0 \/ b.n = 0
        THEN FromInt(0)
        ELSE [n |-> (a.n \div g1) * (b.n \div g2), d |-> (a.d \div g2) * (b.d \div g1)]

IsZero(a) == a.n = 0

\* 1/a for a # 0.
RInv(a) == IF a.n < 0 THEN [n |-> -a.d, d |-> -a.n] ELSE [n |-> a.d, d |-> a.n]

\* a/b for b # 0; the callers raise ZeroDivisionError before using it on 0.
RDiv(a, b) == RMul(a, RInv(b))

RLt(a, b) == a.n * b.d < b.n * a.d

RLe(a, b) == a.n * b.d <= b.n * a.d

RMin(a, b) == IF RLe(a, b) THEN a ELSE b

RMax(a, b) == IF RLe(b, a) THEN a ELSE b

RAbs(a) == [n |-> AbsInt(a.n), d |-> a.d]

\* a ** k for k >= 0.
RECURSIVE RPowNat(_, _)
RPowNat(a, k) == IF k = 0 THEN FromInt(1) ELSE RMul(a, RPowNat(a, k - 1))

\* a ** k for any integer k; a # 0 when k < 0.
RPow(a, k) == IF k >= 0 THEN RPowNat(a, k) ELSE RInv(RPowNat(a, -k))

\* Python's sum() of a list of floats.
RECURSIVE RSum(_)
RSum(xs) == IF xs = <<>> THEN FromInt(0) ELSE RAdd(Head(xs), RSum(Tail(xs)))

\* A keyword argument left at its default None, and one that was supplied.
None == [some |-> FALSE]

Some(x) == [some |-> TRUE, val |-> x]

\* A value stored in the returned dictionary: a number, or the result of the
\* external root finder npf.irr, kept symbolic as the series it was given.
Scalar(x) == [kind |-> "scalar", val |-> x]

External(f, x) == [kind |-> f, val |-> x]

\* ------------------------------------------------------------------------
\* Inputs: the constructor's arguments and the keyword arguments of a call.
\* ------------------------------------------------------------------------

\* system_augment lists given by the caller: one entry per year 0..MaxPeriod.
NoAugment == [i \in 1..(MaxPeriod + 1) |-> FromInt(0)]

ReplacementAugment == [i \in 1..(MaxPeriod + 1) |-> IF i = 3 THEN FromInt(2) ELSE FromInt(0)]

\* Arguments the constructor is called with.
Configs ==
    [ system_capex_USD            : {FromInt(4)},
      system_annual_OM_USD        : {FromInt(0), FromInt(1)},
      system_annual_VOM_USD       : {FromInt(0)},
      system_to_load_annual_MWh_e : {FromInt(1)},
      system_augment              : {NoAugment},
      ITC                         : {FromInt(0), R(1, 2), FromInt(1)},
      DF                          : {R(1, 2)},
      COE                         : {R(3, 2)},
      I                           : {FromInt(1)},
      grant_percentage            : {FromInt(0)},
      tax                         : {R(1, 2)},
      inflation                   : {FromInt(0), R(1, 2)},
      property_tax                : {R(1, 8)},
      insurance                   : {R(1, 8)},
      depreciation_period         : 1..MaxPeriod,
      esc                         : {FromInt(1)},
      analysis_period             : 1..MaxPeriod,
      VOM                         : {R(3, 1000)},
      e_sale                      : {R(1, 1000), R(1, 200)} ]

\* A call that supplies no keyword argument.
NoOverride ==
    [ system_capex_USD |-> None, system_annual_OM_USD |-> None,
      system_annual_VOM_USD |-> None, system_to_load_annual_MWh_e |-> None,
      system_augment |-> None, ITC |-> None, DF |-> None, COE |-> None, I |-> None,
      grant_percentage |-> None, tax |-> None, inflation |-> None,
      property_tax |-> None, insurance |-> None, depreciation_period |-> None,
      esc |-> None, analysis_period |-> None, VOM |-> None, e_sale |-> None,
      gas_cost |-> None ]

\* Keyword arguments of calculate_depreciation: none, or one of its five.
DepreciationOverrides ==
    {NoOverride}
    \cup {[NoOverride EXCEPT !.analysis_period = Some(n)] : n \in {1, 2}}
    \cup {[NoOverride EXCEPT !.system_capex_USD = Some(x)] : x \in {FromInt(8)}}
    \cup {[NoOverride EXCEPT !.inflation = Some(x)] : x \in {FromInt(0), FromInt(1)}}
    \cup {[NoOverride EXCEPT !.depreciation_period = Some(n)] : n \in {0, -1}}
    \cup {[NoOverride EXCEPT !.ITC = Some(x)] : x \in {FromInt(0)}}

\* Keyword arguments of calculate_lcoe_metrics: those above, or one more field.
LcoeOverrides ==
    DepreciationOverrides
    \cup {[NoOverride EXCEPT !.grant_percentage = Some(x)] : x \in {R(1, 2), FromInt(1)}}
    \cup {[NoOverride EXCEPT !.COE = Some(x)] : x \in {R(1, 2)}}
    \cup {[NoOverride EXCEPT !.tax = Some(x)] : x \in {FromInt(0)}}
    \cup {[NoOverride EXCEPT !.system_augment = Some(x)] : x \in {ReplacementAugment}}
    \cup {[NoOverride EXCEPT !.system_annual_VOM_USD = Some(x)] : x \in {FromInt(1)}}
    \cup {[NoOverride EXCEPT !.gas_cost = Some(x)] : x \in {FromInt(1)}}

\* ------------------------------------------------------------------------
\* State.
\* ------------------------------------------------------------------------

VARIABLES
    self,                       \* the LCOECalculator's attributes
    constructed,                \* the arguments __init__ was called with
    pc,                         \* idle | dep_loop | ce_loop | payback | done | error
    op,                         \* the method being called
    ov,                         \* the call's keyword arguments
    p,                          \* calculate_lcoe_metrics: its resolved parameters
    d,                          \* calculate_depreciation: its resolved parameters
    adjusted_depreciable_base, double_declining_rate, remaining_book_value,
    dep_v,                      \* calculate_depreciation: loop variable v
    depreciation_values, depreciable_fractions,
    pre,                        \* lines 221-248: rates and annual series
    mid,                        \* lines 255-298: PVD, FCR, NPV, annualized costs
    v,                          \* calculate_lcoe_metrics: loop variable v
    revenues, costs, other_tax, taxable_income_array, taxes_array, annual_cash_flow,
    unused_depreciation, ebit, depreciation,
    fin,                        \* lines 335-360: totals, TLCC and LCOE values
    cumulative_cash_flow,
    year,                       \* payback loop: next index of enumerate
    payback_period,
    metrics,                    \* the dictionary being built and returned
    result,                     \* the value returned by the call
    err                         \* the exception that ended the call

depVars == <<d, adjusted_depreciable_base, double_declining_rate, remaining_book_value,
             dep_v, depreciation_values, depreciable_fractions>>

loopVars == <<v, revenues, costs, other_tax, taxable_income_array, taxes_array,
              annual_cash_flow, unused_depreciation, ebit, depreciation>>

tailVars == <<fin, cumulative_cash_flow, year, payback_period>>

vars == <<self, constructed, pc, op, ov, p, pre, mid, metrics, result, err,
          depVars, loopVars, tailVars>>

\* A local that is not bound (yet, or any more).
Unset == <<>>

\* ------------------------------------------------------------------------
\* Argument resolution (TEA.py 130-139 and 180-217).
\* ------------------------------------------------------------------------

\* The test inverted, "if x is not None: x = self.x": the stored value always wins.
ResolveStored(arg, stored) == stored

\* "if x is None: x = self.x" (calculate_depreciation tests "== None").
Resolve(arg, stored) == IF arg.some THEN arg.val ELSE stored

DepreciationArgs(s, o) ==
    [ analysis_period     |-> Resolve(o.analysis_period, s.analysis_period),
      system_capex_USD    |-> Resolve(o.system_capex_USD, s.system_capex_USD),
      inflation           |-> Resolve(o.inflation, s.inflation),
      depreciation_period |-> Resolve(o.depreciation_period, s.depreciation_period),
      ITC                 |-> Resolve(o.ITC, s.ITC) ]

LcoeArgs(s, o) ==
    [ system_capex_USD            |-> Resolve(o.system_capex_USD, s.system_capex_USD),
      system_annual_OM_USD        |-> Resolve(o.system_annual_OM_USD, s.system_annual_OM_USD),
      system_annual_VOM_USD       |-> Resolve(o.system_annual_VOM_USD, s.system_annual_VOM_USD),
      system_to_load_annual_MWh_e |-> Resolve(o.system_to_load_annual_MWh_e,
                                              s.system_to_load_annual_MWh_e),
      system_augment              |-> Resolve(o.system_augment, s.system_augment),
      ITC                         |-> Resolve(o.ITC, s.ITC),
      DF                          |-> Resolve(o.DF, s.DF),
      COE                         |-> Resolve(o.COE, s.COE),
      I                           |-> Resolve(o.I, s.I),
      grant_percentage            |-> Resolve(o.grant_percentage, s.grant_percentage),
      tax                         |-> Resolve(o.tax, s.tax),
      inflation                   |-> Resolve(o.inflation, s.inflation),
      property_tax                |-> Resolve(o.property_tax, s.property_tax),
      insurance                   |-> Resolve(o.insurance, s.insurance),
      depreciation_period         |-> Resolve(o.depreciation_period, s.depreciation_period),
      esc                         |-> Resolve(o.esc, s.esc),
      analysis_period             |-> Resolve(o.analysis_period, s.analysis_period),
      VOM                         |-> Resolve(o.VOM, s.VOM),
      e_sale                      |-> Resolve(o.e_sale, s.e_sale) ]

\* The positional arguments calculate_lcoe_metrics passes on (TEA.py 251-253).
NestedDepreciationCall(q) ==
    [NoOverride EXCEPT
        !.analysis_period     = Some(q.analysis_period),
        !.system_capex_USD    = Some(RMul(q.system_capex_USD,
                                          RSub(FromInt(1), q.grant_percentage))),
        !.inflation           = Some(q.inflation),
        !.depreciation_period = Some(q.depreciation_period),
        !.ITC                 = Some(q.ITC)]

\* ------------------------------------------------------------------------
\* calculate_depreciation (TEA.py 113-163).
\* ------------------------------------------------------------------------

\* Line 142.
AdjustedDepreciableBase(capex, itc) ==
    RMul(capex, RSub(FromInt(1), RDiv(itc, FromInt(2))))

\* Lines 143-144, for depreciation_period # 0.
DoubleDecliningRate(period) == RMul(FromInt(2), RDiv(FromInt(1), FromInt(period)))

\* Line 152 without the cap of line 153.
CurrentDepreciationUncapped(book, rate) == RMul(book, rate)

\* Lines 152-153.
CurrentDepreciation(book, rate) == RMin(RMul(book, rate), book)

\* Line 154.
ConstantDepreciation(current, inflation, yr) ==
    RMul(current, RPow(RSub(FromInt(1), inflation), yr))

\* Lines 142-147: the locals before the loop; 1 / 0 raises at line 143.
DepreciationSetup(a) ==
    /\ d' = a
    /\ dep_v' = 1
    /\ depreciation_values' = <<FromInt(0)>>
    /\ depreciable_fractions' = <<FromInt(0)>>
    /\ adjusted_depreciable_base' = AdjustedDepreciableBase(a.system_capex_USD, a.ITC)
    /\ IF a.depreciation_period = 0
       THEN /\ pc' = "error"
            /\ err' = "ZeroDivisionError"
            /\ double_declining_rate' = Unset
            /\ remaining_book_value' = Unset
       ELSE /\ pc' = "dep_loop"
            /\ err' = "none"
            /\ double_declining_rate' = DoubleDecliningRate(a.depreciation_period)
            /\ remaining_book_value' = adjusted_depreciable_base'

\* A caller invokes calculate_depreciation(**o).
CallDepreciation(o) ==
    /\ pc = "idle"
    /\ op' = "calculate_depreciation"
    /\ ov' = o
    /\ DepreciationSetup(DepreciationArgs(self, o))
    /\ UNCHANGED <<self, constructed, p, pre, mid, metrics, result, loopVars, tailVars>>

\* One iteration of the loop at lines 150-161; 0.0 / 0.0 raises at line 156.
DepreciationStep ==
    /\ pc = "dep_loop"
    /\ dep_v <= d.analysis_period
    /\ dep_v' = dep_v + 1
    /\ IF dep_v <= d.depreciation_period
       THEN LET current_depreciation ==
                    CurrentDepreciation(remaining_book_value, double_declining_rate)
                constant_depreciation ==
                    ConstantDepreciation(current_depreciation, d.inflation, dep_v)
            IN  /\ depreciation_values' = Append(depreciation_values, constant_depreciation)
                /\ IF IsZero(adjusted_depreciable_base)
                   THEN /\ pc' = "error"
                        /\ err' = "ZeroDivisionError"
                        /\ UNCHANGED <<depreciable_fractions, remaining_book_value>>
                   ELSE /\ depreciable_fractions' =
                               Append(depreciable_fractions,
                                      RDiv(constant_depreciation, adjusted_depreciable_base))
                        /\ remaining_book_value' =
                               RSub(remaining_book_value, current_depreciation)
                        /\ UNCHANGED <<pc, err>>
       ELSE /\ depreciation_values' = Append(depreciation_values, FromInt(0))
            /\ depreciable_fractions' = Append(depreciable_fractions, FromInt(0))
            /\ UNCHANGED <<pc, err, remaining_book_value>>
    /\ UNCHANGED <<self, constructed, op, ov, p, pre, mid, metrics, result,
                   d, adjusted_depreciable_base, double_declining_rate, loopVars, tailVars>>

\* Line 163, when the caller called calculate_depreciation itself.
DepreciationReturn ==
    /\ pc = "dep_loop"
    /\ op = "calculate_depreciation"
    /\ dep_v > d.analysis_period
    /\ result' = <<depreciation_values, depreciable_fractions>>
    /\ pc' = "done"
    /\ UNCHANGED <<self, constructed, op, ov, p, pre, mid, metrics, err,
                   depVars, loopVars, tailVars>>

\* ------------------------------------------------------------------------
\* calculate_lcoe_metrics (TEA.py 167-383).
\* ------------------------------------------------------------------------

\* numpy_financial.npv(rate, values): sum of values[i] / (1 + rate) ** i.
RECURSIVE NPVFrom(_, _, _)
NPVFrom(rate, values, i) ==
    IF values = <<>>
    THEN FromInt(0)
    ELSE RAdd(RDiv(Head(values), RPow(RAdd(FromInt(1), rate), i)),
              NPVFrom(rate, Tail(values), i + 1))

NPV(rate, values) == NPVFrom(rate, values, 0)

\* Python's values[:n].
Prefix(values, n) == SubSeq(values, 1, IF n < Len(values) THEN n ELSE Len(values))

\* Lines 222-223.
NominalWACC(q) ==
    RAdd(RMul(RMul(q.DF, q.I), RSub(FromInt(1), q.tax)),
         RMul(RSub(FromInt(1), q.DF), q.COE))

RealWACC(q) ==
    RSub(RDiv(RAdd(FromInt(1), NominalWACC(q)), RAdd(FromInt(1), q.inflation)), FromInt(1))

\* Line 224, where it is defined.
CapitalRecoveryFactor(rate, periods) ==
    RDiv(rate, RSub(FromInt(1), RPow(RAdd(FromInt(1), rate), -periods)))

\* The exception lines 222-224 raise, if any: each float division by 0.0 and
\* each 0.0 ** negative raises ZeroDivisionError.
DiscountingError(q) ==
    IF IsZero(RAdd(FromInt(1), q.inflation)) THEN "ZeroDivisionError"
    ELSE IF IsZero(RAdd(FromInt(1), RealWACC(q))) /\ q.analysis_period > 0
         THEN "ZeroDivisionError"
    ELSE IF IsZero(RSub(FromInt(1),
                        RPow(RAdd(FromInt(1), RealWACC(q)), -q.analysis_period)))
         THEN "ZeroDivisionError"
    ELSE "none"

\* [0] followed by base * (1 + rate) ** (v + 1) for v in range(periods)
\* (lines 227-230, 235-236, 247-248).
Escalated(base, rate, periods) ==
    [i \in 1..((IF periods > 0 THEN periods ELSE 0) + 1) |->
        IF i = 1 THEN FromInt(0) ELSE RMul(base, RPow(RAdd(FromInt(1), rate), i - 1))]

\* [0] followed by periods copies of x (lines 241-242, 350-351).
Replicated(x, periods) ==
    [i \in 1..((IF periods > 0 THEN periods ELSE 0) + 1) |->
        IF i = 1 THEN FromInt(0) ELSE x]

\* Line 239: MWh to kWh.
AnnualRenewables(q) == RMul(q.system_to_load_annual_MWh_e, FromInt(1000))

\* Line 245.
AnnualElectricitySales(q) == RMul(AnnualRenewables(q), q.e_sale)

\* Line 233.
AnnualElectricityPurchases == RAdd(FromInt(0), FromInt(0))

\* Lines 222-248.
Discounting(q) ==
    [ WACC_n |-> NominalWACC(q),
      WACC_r |-> RealWACC(q),
      CRF    |-> CapitalRecoveryFactor(RealWACC(q), q.analysis_period),
      annual_OM  |-> Escalated(q.system_annual_OM_USD, q.esc, q.analysis_period),
      annual_VOM |-> Escalated(q.system_annual_VOM_USD, q.esc, q.analysis_period),
      annual_electricity_purchases |->
          Escalated(AnnualElectricityPurchases, q.esc, q.analysis_period),
      annual_renewables |-> Replicated(AnnualRenewables(q), q.analysis_period),
      annual_electricity_sales |->
          Escalated(AnnualElectricitySales(q), FromInt(0), q.analysis_period) ]

\* Lines 234 and 246 placed after lines 236 and 248: the series are stored.
EarlyMetricsSeries(q) ==
    ("annual_electricity_purchases_USD" :>
        External("series", Escalated(AnnualElectricityPurchases, q.esc, q.analysis_period)))
    @@ ("annual_electricity_sales_USD" :>
        External("series", Escalated(AnnualElectricitySales(q), FromInt(0), q.analysis_period)))

\* Lines 234 and 246: what the dictionary holds before the depreciation call.
EarlyMetrics(q) ==
    ("annual_electricity_purchases_USD" :> Scalar(AnnualElectricityPurchases))
    @@ ("annual_electricity_sales_USD" :> Scalar(AnnualElectricitySales(q)))

\* A caller invokes calculate_lcoe_metrics(**o): lines 180-253, up to the
\* loop of the nested calculate_depreciation call.
CallLcoe(o) ==
    /\ pc = "idle"
    /\ op' = "calculate_lcoe_metrics"
    /\ ov' = o
    /\ LET q == LcoeArgs(self, o)
       IN  /\ p' = q
           /\ IF DiscountingError(q) # "none"
              THEN /\ pc' = "error"
                   /\ err' = DiscountingError(q)
                   /\ pre' = Unset
                   /\ metrics' = <<>>
                   /\ UNCHANGED depVars
              ELSE /\ pre' = Discounting(q)
                   /\ metrics' = EarlyMetrics(q)
                   /\ DepreciationSetup(DepreciationArgs(self, NestedDepreciationCall(q)))
    /\ UNCHANGED <<self, constructed, mid, result, loopVars, tailVars>>

\* Lines 256-259: depreciable_fractions[n] for n in range(0, period + 1).
PresentValueOfDepreciation(fractions, rate, period) ==
    RSum([n \in 1..(IF period >= 0 THEN period + 1 ELSE 0) |->
             RDiv(fractions[n], RPow(RAdd(FromInt(1), rate), n - 1))])

\* Lines 262-266 and 269-272.
FixedChargeRateAT(q, crf, pvd) ==
    RAdd(RAdd(RMul(crf,
                   RSub(RSub(FromInt(1),
                             RMul(RMul(q.tax, pvd),
                                  RSub(FromInt(1), RDiv(q.ITC, FromInt(2))))),
                        q.ITC)),
              RMul(q.insurance, RSub(FromInt(1), q.tax))),
         RMul(q.property_tax, RSub(FromInt(1), q.tax)))

FixedChargeRateBT(q, crf, pvd) ==
    RDiv(RAdd(RAdd(RMul(crf,
                        RSub(RSub(FromInt(1),
                                  RMul(RMul(q.tax, pvd),
                                       RSub(FromInt(1), RDiv(q.ITC, FromInt(2))))),
                             q.ITC)),
                   q.insurance),
              q.property_tax),
         RSub(FromInt(1), q.tax))

\* The exception lines 256-272 raise, if any.
AggregationError(q, fractions) ==
    IF q.depreciation_period + 1 > Len(fractions) THEN "IndexError"
    ELSE IF IsZero(RSub(FromInt(1), q.tax)) THEN "ZeroDivisionError"
    ELSE "none"

\* Capex net of the grant, as lines 285-286, 325 and 330 compute it.
GrantAdjustedCapex(q) == RMul(RSub(FromInt(1), q.grant_percentage), q.system_capex_USD)

\* Lines 256-298.
Aggregates(q, pr, values, fractions) ==
    LET r      == pr.WACC_r
        n      == q.analysis_period + 1
        oneTax == RSub(FromInt(1), q.tax)
        PVD    == PresentValueOfDepreciation(fractions, r, q.depreciation_period)
        FCR_AT == FixedChargeRateAT(q, pr.CRF, PVD)
        FCR_BT == FixedChargeRateBT(q, pr.CRF, PVD)
        NPV_OM == NPV(r, Prefix(pr.annual_OM, n))
        NPV_VOM == NPV(r, Prefix(pr.annual_VOM, n))
        NPV_sales == NPV(r, Prefix(pr.annual_electricity_sales, n))
        NPV_purch == NPV(r, Prefix(pr.annual_electricity_purchases, n))
        NPV_aug == NPV(r, Prefix(q.system_augment, n))
        CAPEX_AT == RMul(GrantAdjustedCapex(q), FCR_AT)
        CAPEX_BT == RMul(GrantAdjustedCapex(q), FCR_BT)
        OM_BT == RMul(NPV_OM, pr.CRF)
        VOM_BT == RMul(NPV_VOM, pr.CRF)
        purch_BT == RMul(NPV_purch, pr.CRF)
        sales_BT == RMul(NPV_sales, pr.CRF)
        aug_BT == RMul(NPV_aug, pr.CRF)
    IN  [ PVD |-> PVD,
          FCR_after_tax_deduction |-> FCR_AT,
          FCR_before_tax_revenue_required |-> FCR_BT,
          NPV_OM_N |-> NPV_OM,
          NPV_VOM_N |-> NPV_VOM,
          NPV_depreciation |-> NPV(r, values),
          NPV_Energy_N |-> NPV(r, Prefix(pr.annual_renewables, n)),
          NPV_electricity_sales_N |-> NPV_sales,
          NPV_electricity_purchases_N |-> NPV_purch,
          NPV_system_augment_N |-> NPV_aug,
          annualized_CAPEX_AT |-> CAPEX_AT,
          annualized_CAPEX_BT |-> CAPEX_BT,
          annualized_OM_BT |-> OM_BT,
          annualized_OM_AT |-> RMul(OM_BT, oneTax),
          annualized_VOM_BT |-> VOM_BT,
          annualized_VOM_AT |-> RMul(VOM_BT, oneTax),
          annualized_electricity_purchases_BT |-> purch_BT,
          annualized_electricity_purchases_AT |-> RMul(purch_BT, oneTax),
          annualized_electricity_sales_BT |-> sales_BT,
          annualized_electricity_sales_AT |-> RMul(sales_BT, oneTax),
          annualized_system_augment_BT |-> aug_BT,
          annualized_system_augment_AT |-> RMul(aug_BT, oneTax),
          annual_ARR_AT |-> RSum(<<CAPEX_AT, RMul(OM_BT, oneTax), RMul(VOM_BT, oneTax),
                                   RMul(purch_BT, oneTax), RMul(aug_BT, oneTax)>>),
          annual_ARR_BT |-> RSum(<<CAPEX_BT, OM_BT, VOM_BT, purch_BT, aug_BT>>) ]

\* Line 306: the initial equity investment, as a negative cash flow.
InitialCashFlow(q) ==
    RNeg(RMul(RMul(q.system_capex_USD, RSub(FromInt(1), q.ITC)),
              RSub(FromInt(1), q.grant_percentage)))

\* The nested calculate_depreciation call has returned (line 163): lines
\* 255-307, up to the cash-flow loop.
LcoeAggregate ==
    /\ pc = "dep_loop"
    /\ op = "calculate_lcoe_metrics"
    /\ dep_v > d.analysis_period
    /\ IF AggregationError(p, depreciable_fractions) # "none"
       THEN /\ pc' = "error"
            /\ err' = AggregationError(p, depreciable_fractions)
            /\ UNCHANGED <<mid, loopVars>>
       ELSE /\ pc' = "ce_loop"
            /\ err' = "none"
            /\ mid' = Aggregates(p, pre, depreciation_values, depreciable_fractions)
            /\ v' = 1
            /\ revenues' = <<FromInt(0)>>
            /\ costs' = <<FromInt(0)>>
            /\ other_tax' = <<FromInt(0)>>
            /\ taxable_income_array' = <<FromInt(0)>>
            /\ taxes_array' = <<FromInt(0)>>
            /\ annual_cash_flow' = <<InitialCashFlow(p)>>
            /\ unused_depreciation' = FromInt(0)
            /\ UNCHANGED <<ebit, depreciation>>
    /\ UNCHANGED <<self, constructed, op, ov, p, pre, metrics, result, depVars, tailVars>>

\* Line 316.
TaxableIncome(e, dep) == RMax(FromInt(0), RSub(e, dep))

\* Lines 319-322 without the abs() of line 320.
UnusedDepreciationSigned(e, dep) ==
    IF RLt(RSub(e, dep), FromInt(0)) THEN RSub(e, dep) ELSE FromInt(0)

\* Lines 319-322: the depreciation rolled over to the next year.
UnusedDepreciation(e, dep) ==
    IF RLt(RSub(e, dep), FromInt(0)) THEN RAbs(RSub(e, dep)) ELSE FromInt(0)

\* Lines 325 and 330: insurance plus property tax on the grant-adjusted capex.
OtherTax(q) ==
    RAdd(RMul(RMul(q.insurance, q.system_capex_USD), RSub(FromInt(1), q.grant_percentage)),
         RMul(RMul(q.property_tax, q.system_capex_USD), RSub(FromInt(1), q.grant_percentage)))

\* One iteration of the loop at lines 310-333; system_augment[v] raises
\* IndexError at line 313 when the list is too short.
CashFlowStep ==
    /\ pc = "ce_loop"
    /\ v <= p.analysis_period
    /\ IF v + 1 > Len(p.system_augment)
       THEN /\ pc' = "error"
            /\ err' = "IndexError"
            /\ UNCHANGED loopVars
       ELSE LET OM_esc == RAdd(pre.annual_OM[v + 1], pre.annual_VOM[v + 1])
                cost   == RAdd(RAdd(OM_esc, pre.annual_electricity_purchases[v + 1]),
                               p.system_augment[v + 1])
                e      == RSub(pre.annual_electricity_sales[v + 1], cost)
                dep    == RAdd(depreciation_values[v + 1], unused_depreciation)
                taxable_income == TaxableIncome(e, dep)
                taxes  == RMul(taxable_income, p.tax)
                net_income == RSub(RSub(e, taxes), OtherTax(p))
            IN  /\ ebit' = e
                /\ depreciation' = dep
                /\ unused_depreciation' = UnusedDepreciation(e, dep)
                /\ revenues' = Append(revenues, pre.annual_electricity_sales[v + 1])
                /\ costs' = Append(costs, cost)
                /\ other_tax' = Append(other_tax, OtherTax(p))
                /\ taxes_array' = Append(taxes_array, taxes)
                /\ taxable_income_array' = Append(taxable_income_array, taxable_income)
                /\ annual_cash_flow' = Append(annual_cash_flow, net_income)
                /\ v' = v + 1
                /\ UNCHANGED <<pc, err>>
    /\ UNCHANGED <<self, constructed, op, ov, p, pre, mid, metrics, result,
                   depVars, tailVars>>

\* Lines 363-365: [0] followed by the running sums of annual_cash_flow[1:].
RECURSIVE RunningSums(_, _)
RunningSums(sums, flows) ==
    IF flows = <<>>
    THEN sums
    ELSE RunningSums(Append(sums, RAdd(sums[Len(sums)], Head(flows))), Tail(flows))

CumulativeCashFlow(flows) == RunningSums(<<FromInt(0)>>, Tail(flows))

\* Lines 336-360.  Every input of the model has a production > 0 and a real
\* rate > -1, so NPV_Energy_N is not 0 at lines 346-357.
Totals(q, pr, md, values) ==
    LET r      == pr.WACC_r
        oneTax == RSub(FromInt(1), q.tax)
        NPV_costs == NPV(r, costs)
        NPV_other_tax == NPV(r, other_tax)
        outlay == RMul(FromInt(-1), annual_cash_flow[1])
        shield == RMul(q.tax, md.NPV_depreciation)
        after_tax_TLCC ==
            RAdd(RAdd(RSub(outlay, shield), RMul(oneTax, NPV_costs)),
                 RMul(oneTax, NPV_other_tax))
        before_tax_TLCC ==
            RAdd(RDiv(RAdd(RSub(outlay, shield), RMul(oneTax, NPV_costs)), oneTax),
                 RDiv(NPV_other_tax, oneTax))
        NPV_ARR_AT == NPV(r, Replicated(md.annual_ARR_AT, q.analysis_period))
        NPV_ARR_BT == NPV(r, Replicated(md.annual_ARR_BT, q.analysis_period))
    IN  [ NPV_costs |-> NPV_costs,
          NPV_other_tax |-> NPV_other_tax,
          NPV_cash_flow |-> NPV(r, annual_cash_flow),
          IRR |-> External("npf.irr", annual_cash_flow),
          after_tax_TLCC |-> after_tax_TLCC,
          before_tax_TLCC |-> before_tax_TLCC,
          LCOE_after_tax |-> RDiv(after_tax_TLCC, md.NPV_Energy_N),
          LCOE_before_tax |-> RDiv(before_tax_TLCC, md.NPV_Energy_N),
          NPV_ARR_AT |-> NPV_ARR_AT,
          LCOE_real_USD_kWh_AT |-> RDiv(NPV_ARR_AT, md.NPV_Energy_N),
          NPV_ARR_BT |-> NPV_ARR_BT,
          LCOE_real_USD_kWh_BT |-> RDiv(NPV_ARR_BT, md.NPV_Energy_N),
          initial_investment |-> RNeg(annual_cash_flow[1]) ]

\* The cash-flow loop is over: lines 335-368, up to the payback loop.
LcoeTotals ==
    /\ pc = "ce_loop"
    /\ v > p.analysis_period
    /\ fin' = Totals(p, pre, mid, depreciation_values)
    /\ cumulative_cash_flow' = CumulativeCashFlow(annual_cash_flow)
    /\ payback_period' = None
    /\ year' = 0
    /\ pc' = "payback"
    /\ UNCHANGED <<self, constructed, op, ov, p, pre, mid, metrics, result, err,
                   depVars, loopVars>>

\* Line 370 with ">" for ">=".
PaybackReachedStrict(cash, initial_investment) == RLt(initial_investment, cash)

\* Line 370.
PaybackReached(cash, initial_investment) == RLe(initial_investment, cash)

\* One iteration of the loop at lines 369-372.
PaybackStep ==
    /\ pc = "payback"
    /\ ~payback_period.some
    /\ year < Len(cumulative_cash_flow)
    /\ IF PaybackReached(cumulative_cash_flow[year + 1], fin.initial_investment)
       THEN payback_period' = Some(year) /\ UNCHANGED year
       ELSE year' = year + 1 /\ UNCHANGED payback_period
    /\ UNCHANGED <<self, constructed, pc, op, ov, p, pre, mid, metrics, result, err,
                   depVars, loopVars, fin, cumulative_cash_flow>>

\* Lines 374-382: the entries added to the dictionary before it is returned.
FinalMetrics(md, fn, payback) ==
    ("PVD" :> Scalar(md.PVD))
    @@ ("FCR_AT" :> Scalar(md.FCR_after_tax_deduction))
    @@ ("FCR_BT" :> Scalar(md.FCR_before_tax_revenue_required))
    @@ ("CRF" :> Scalar(pre.CRF))
    @@ ("NPV_cash_flow" :> Scalar(fn.NPV_cash_flow))
    @@ ("IRR" :> fn.IRR)
    @@ ("payback_period" :> payback)
    @@ ("LCOE_real_USD_kWh_BT" :> Scalar(fn.LCOE_real_USD_kWh_BT))
    @@ ("LCOE_real_USD_kWh_AT" :> Scalar(fn.LCOE_real_USD_kWh_AT))

\* The payback loop has ended (break, or the list is exhausted): lines 374-383.
LcoeReturn ==
    /\ pc = "payback"
    /\ payback_period.some \/ year >= Len(cumulative_cash_flow)
    /\ metrics' = FinalMetrics(mid, fin, payback_period) @@ metrics
    /\ result' = metrics'
    /\ pc' = "done"
    /\ UNCHANGED <<self, constructed, op, ov, p, pre, mid, err,
                   depVars, loopVars, tailVars>>

\* The caller has the result, or the exception: the frames are gone and the
\* object is ready for the next call.
Complete ==
    /\ pc \in {"done", "error"}
    /\ pc' = "idle"
    /\ op' = "none"
    /\ ov' = NoOverride
    /\ err' = "none"
    /\ p' = Unset /\ pre' = Unset /\ mid' = Unset /\ metrics' = Unset /\ result' = Unset
    /\ d' = Unset /\ adjusted_depreciable_base' = Unset /\ double_declining_rate' = Unset
    /\ remaining_book_value' = Unset /\ dep_v' = 0
    /\ depreciation_values' = Unset /\ depreciable_fractions' = Unset
    /\ v' = 0 /\ revenues' = Unset /\ costs' = Unset /\ other_tax' = Unset
    /\ taxable_income_array' = Unset /\ taxes_array' = Unset /\ annual_cash_flow' = Unset
    /\ unused_depreciation' = Unset /\ ebit' = Unset /\ depreciation' = Unset
    /\ fin' = Unset /\ cumulative_cash_flow' = Unset /\ year' = 0
    /\ payback_period' = None
    /\ UNCHANGED <<self, constructed>>

\* __init__ (lines 70-88) has stored its arguments; no call is in progress.
Init ==
    /\ self \in Configs
    /\ constructed = self
    /\ pc = "idle"
    /\ op = "none"
    /\ ov = NoOverride
    /\ err = "none"
    /\ p = Unset /\ pre = Unset /\ mid = Unset /\ metrics = Unset /\ result = Unset
    /\ d = Unset /\ adjusted_depreciable_base = Unset /\ double_declining_rate = Unset
    /\ remaining_book_value = Unset /\ dep_v = 0
    /\ depreciation_values = Unset /\ depreciable_fractions = Unset
    /\ v = 0 /\ revenues = Unset /\ costs = Unset /\ other_tax = Unset
    /\ taxable_income_array = Unset /\ taxes_array = Unset /\ annual_cash_flow = Unset
    /\ unused_depreciation = Unset /\ ebit = Unset /\ depreciation = Unset
    /\ fin = Unset /\ cumulative_cash_flow = Unset /\ year = 0
    /\ payback_period = None

Next ==
    \/ \E o \in DepreciationOverrides : CallDepreciation(o)
    \/ DepreciationStep
    \/ DepreciationReturn
    \/ \E o \in LcoeOverrides : CallLcoe(o)
    \/ LcoeAggregate
    \/ CashFlowStep
    \/ LcoeTotals
    \/ PaybackStep
    \/ LcoeReturn
    \/ Complete

Spec == Init /\ [][Next]_vars

\* ------------------------------------------------------------------------
\* Properties.
\* ------------------------------------------------------------------------

\* A calculate_lcoe_metrics call is in progress or has ended, and p is bound.
InLcoe == op = "calculate_lcoe_metrics"

\* A calculate_depreciation call made by the caller, and d is bound.
InDepreciation == op = "calculate_depreciation"

\* The locals of the depreciation loop are bound (either operation).
DepreciationBound == pc \in {"dep_loop", "ce_loop", "payback", "done"}

\* The locals of the cash-flow loop are bound.
CashFlowBound == pc \in {"ce_loop", "payback", "done"} /\ InLcoe

Positive(x) == RLt(FromInt(0), x)

UnitInterval(x) == RLe(FromInt(0), x) /\ RLe(x, FromInt(1))

\* Inputs of calculate_lcoe_metrics for which no other degenerate case of the
\* arithmetic applies: capex > 0, a real rate that is not 0, tax # 1 and
\* 1 <= depreciation_period <= analysis_period.
OrdinaryLcoeInputs ==
    /\ Positive(p.system_capex_USD)
    /\ DiscountingError(p) = "none"
    /\ ~IsZero(RSub(FromInt(1), p.tax))
    /\ 1 <= p.depreciation_period
    /\ p.depreciation_period <= p.analysis_period
    /\ Len(p.system_augment) >= p.analysis_period + 1

\* C1: with grant_percentage = 1 and otherwise valid inputs,
\* calculate_lcoe_metrics completes, the year-0 cash flow is 0, both annualized
\* capital costs are 0 and the insurance/property-tax cost is 0 in every year.
C1_GrantOfOneCompletesWithZeroCapital ==
    (InLcoe /\ p.grant_percentage = FromInt(1) /\ OrdinaryLcoeInputs) =>
        /\ pc # "error"
        /\ CashFlowBound =>
              /\ IsZero(annual_cash_flow[1])
              /\ IsZero(mid.annualized_CAPEX_AT)
              /\ IsZero(mid.annualized_CAPEX_BT)
              /\ \A i \in 1..Len(other_tax) : IsZero(other_tax[i])

\* C2: when the real weighted cost of capital WACC_r is 0,
\* calculate_lcoe_metrics does not end in a division error and its CRF is
\* 1 / analysis_period.
C2_ZeroRealRateGivesLimitingCRF ==
    (InLcoe /\ ~IsZero(RAdd(FromInt(1), p.inflation)) /\ IsZero(RealWACC(p))
            /\ p.analysis_period >= 1) =>
        /\ pc # "error"
        /\ pc \in {"dep_loop", "ce_loop", "payback", "done"} =>
              pre.CRF = R(1, p.analysis_period)

\* C3: with 0 < analysis_period < depreciation_period both operations
\* complete without an index error and the schedule has analysis_period + 1
\* entries.
C3_ShortAnalysisPeriodTruncates ==
    /\ (InDepreciation /\ 0 < d.analysis_period
            /\ d.analysis_period < d.depreciation_period
            /\ Positive(d.system_capex_USD)) =>
          /\ pc # "error"
          /\ pc = "done" =>
                /\ Len(result[1]) = d.analysis_period + 1
                /\ Len(result[2]) = d.analysis_period + 1
    /\ (InLcoe /\ 0 < p.analysis_period
            /\ p.analysis_period < p.depreciation_period
            /\ Positive(GrantAdjustedCapex(p))
            /\ Positive(p.system_capex_USD)
            /\ DiscountingError(p) = "none"
            /\ ~IsZero(RSub(FromInt(1), p.tax))) =>
          /\ pc # "error"
          /\ CashFlowBound => Len(depreciable_fractions) = p.analysis_period + 1

\* The precondition of C4 on the resolved arguments of calculate_depreciation.
C4_Inputs ==
    /\ DepreciationBound
    /\ Positive(d.system_capex_USD)
    /\ UnitInterval(d.ITC)
    /\ UnitInterval(d.inflation)
    /\ 1 <= d.depreciation_period
    /\ d.depreciation_period <= d.analysis_period

C4_State ==
    C4_Inputs =>
        /\ RLe(FromInt(0), remaining_book_value)
        /\ \A i \in 1..Len(depreciation_values) : RLe(FromInt(0), depreciation_values[i])
        /\ RLe(RSum(depreciable_fractions), FromInt(1))

C4_Step ==
    (C4_Inputs /\ pc = "dep_loop" /\ pc' = "dep_loop") =>
        RLe(remaining_book_value', remaining_book_value)

\* C4: in calculate_depreciation with capex > 0, ITC and inflation in [0, 1]
\* and 1 <= depreciation_period <= analysis_period, remaining_book_value is
\* never negative and never grows from one iteration to the next, every
\* depreciation value is >= 0 and the depreciable fractions sum to at most 1.
C4_DepreciationInvariants == [] C4_State /\ [][C4_Step]_vars

\* A three-year declining schedule, deflated, that has run to its end and
\* leaves book value behind.
C4_Witness ==
    /\ C4_Inputs
    /\ pc = "done"
    /\ InDepreciation
    /\ d.depreciation_period = 3
    /\ Positive(d.inflation)
    /\ Positive(remaining_book_value)
    /\ Positive(RSum(depreciable_fractions))
    /\ RLt(remaining_book_value, adjusted_depreciable_base)

\* EBIT of year yr as section 4.2 step 8 defines it, from the annual series.
EBITOf(yr) ==
    RSub(pre.annual_electricity_sales[yr + 1],
         RAdd(RAdd(RAdd(pre.annual_OM[yr + 1], pre.annual_VOM[yr + 1]),
                   pre.annual_electricity_purchases[yr + 1]),
              p.system_augment[yr + 1]))

\* After the iteration for year v - 1: ebit and depreciation are that year's
\* EBIT and effective depreciation.
C5_State ==
    (pc = "ce_loop" /\ v >= 2) =>
        /\ ebit = EBITOf(v - 1)
        /\ IF RLt(ebit, depreciation)
           THEN /\ IsZero(taxable_income_array[v])
                /\ unused_depreciation = RSub(depreciation, ebit)
           ELSE /\ taxable_income_array[v] = RSub(ebit, depreciation)
                /\ IsZero(unused_depreciation)

\* The iteration for year v, after the one for year v - 1.
C5_Step ==
    (pc = "ce_loop" /\ v >= 2 /\ pc' = "ce_loop" /\ v' = v + 1) =>
        depreciation' =
            RAdd(depreciation_values[v + 1],
                 IF RLt(ebit, depreciation) THEN RSub(depreciation, ebit) ELSE FromInt(0))

\* C5: in the cash-flow loop, a year whose EBIT is below its effective
\* depreciation has taxable income 0 and hands exactly the shortfall to the next
\* year's effective depreciation; any other year has taxable income EBIT minus
\* effective depreciation and hands over 0.
C5_RolloverCorrectness == [] C5_State /\ [][C5_Step]_vars

\* A year that received a rollover, fell short again and passed a larger one on.
C5_Witness ==
    /\ pc = "ce_loop"
    /\ v >= 3
    /\ RLt(depreciation_values[v], depreciation)
    /\ RLt(ebit, depreciation)
    /\ Positive(unused_depreciation)
    /\ IsZero(taxable_income_array[v])

\* Net cash flow of years 1..yr summed, the initial outlay excluded.
CashFlowThrough(yr) == RSum(SubSeq(annual_cash_flow, 2, yr + 1))

\* C6: the returned payback_period is the smallest year index whose cumulative
\* net cash flow from year 1 on is >= the magnitude of the initial investment,
\* it is None exactly when no year of the analysis period reaches that, and
\* for a positive initial investment it lies in 1..analysis_period.
C6_PaybackIsFirstYearReached ==
    (pc = "done" /\ InLcoe) =>
        LET magnitude == RAbs(annual_cash_flow[1])
            payback   == result["payback_period"]
            reached(yr) == RLe(magnitude, CashFlowThrough(yr))
        IN  /\ payback.some =>
                  /\ payback.val \in 0..p.analysis_period
                  /\ reached(payback.val)
                  /\ \A yr \in 0..(payback.val - 1) : ~reached(yr)
            /\ ~payback.some <=> \A yr \in 0..p.analysis_period : ~reached(yr)
            /\ (payback.some /\ Positive(magnitude)) => payback.val \in 1..p.analysis_period

\* A positive investment paid back in a later year than the first.
C6_Witness ==
    /\ pc = "done"
    /\ InLcoe
    /\ Positive(RAbs(annual_cash_flow[1]))
    /\ result["payback_period"].some
    /\ result["payback_period"].val >= 2

\* C7: through any sequence of calls with any keyword arguments the stored
\* attributes keep the values given at construction, and every parameter of a
\* call is the keyword argument if one was supplied and the stored value if not.
C7_StoredConfigurationIsReadOnly ==
    /\ self = constructed
    /\ InLcoe =>
          \A f \in DOMAIN p :
              p[f] = IF ov[f].some THEN ov[f].val ELSE constructed[f]
    /\ InDepreciation =>
          \A f \in DOMAIN d :
              d[f] = IF ov[f].some THEN ov[f].val ELSE constructed[f]

\* A completed call that overrode a stored value with a different one.
C7_Witness ==
    /\ pc = "done"
    /\ InLcoe
    /\ ov.inflation.some
    /\ ov.inflation.val # constructed.inflation
    /\ p.inflation = ov.inflation.val
    /\ self.inflation = constructed.inflation

\* C8: the returned dictionary holds the TLCC-derived LCOE pair and the
\* annuity-derived pair, with PVD, both FCRs, CRF, NPV of cash flow, IRR and
\* payback period.
C8_BothLcoeDerivationsReturned ==
    (pc = "done" /\ InLcoe) =>
        { "LCOE_after_tax", "LCOE_before_tax",
          "LCOE_real_USD_kWh_AT", "LCOE_real_USD_kWh_BT",
          "PVD", "FCR_AT", "FCR_BT", "CRF", "NPV_cash_flow", "IRR",
          "payback_period" } \subseteq DOMAIN result

\* The two entries of the dictionary that section 4.2 calls series.
SeriesKeys == {"annual_electricity_purchases_USD", "annual_electricity_sales_USD"}

C10_DegeneratePeriodGivesZeroSchedule ==
    (InDepreciation /\ d.depreciation_period <= 0 /\ d.analysis_period >= 1
        /\ Positive(d.system_capex_USD)) =>
        /\ pc # "error"
        /\ pc = "done" =>
              \A k \in 1..2 :
                  /\ Len(result[k]) = d.analysis_period + 1
                  /\ \A i \in 1..Len(result[k]) : IsZero(result[k][i])

====
